---- MODULE Spec2Model ----
(***************************************************************************)
(* Model of check_first_posts_for_changes/main.py: the candidate selector, *)
(* the first-post change detection and the visibility check of the forum   *)
(* scraper.  The relational tables are sequences of rows; of the pub/sub   *)
(* topics the model keeps the messages the last step published.  Of        *)
(* communicate/main.py the model has the two functions that write the      *)
(* regions and the notification preferences of a user.                     *)
(***************************************************************************)
EXTENDS Integers, Sequences, FiniteSets, TLC

VARIABLES
    searches,             \* table searches (read only for this function)
    search_health_check,  \* table search_health_check
    search_first_posts,   \* table search_first_posts
    bad_gateway_counter,  \* the module global bad_gateway_counter
    published,            \* the publish_to_pubsub calls of the last step
    pc,                   \* "idle", "visibility" or "first_posts"
    in_main,              \* TRUE when the running batch was entered from main
    batch,                \* the part of the iterated list not yet processed
    updated,              \* list_of_searches_with_updated_first_posts
    now,                  \* datetime.datetime.now(): it ticks between two calls
    last,                 \* which step was taken last and what it fetched
    sel                   \* input and result of the function a function
                          \* specification applies (SpecSel, SpecVis, ...);
                          \* the rows of one user of communicate
                          \* (SpecRegions, SpecPrefs)

vars == <<searches, search_health_check, search_first_posts,
          bad_gateway_counter, published, pc, in_main, batch, updated, now,
          last, sel>>

-----------------------------------------------------------------------------
(* Bounds *)

\* largest population handed to the candidate selector
MaxPop == 3
\* number of rows of table searches
NumSearches == 2
\* a new call is started while datetime.now() is at most this
MaxClock == 1
\* distinct first-post bodies the forum can serve
MaxPost == 2
\* num_of_checks is not incremented past this value
MaxChecks == 2
\* cap of bad_gateway_counter outside main (main resets it)
MaxBadGateway == 1
\* longest text or title handed to a function, in tokens
MaxText == 3

-----------------------------------------------------------------------------
(* Values *)

\* SQL NULL / Python None in an integer column
NULL == -1
\* SQL NULL in a text column
NULLS == "NULL"
\* the status strings 'Ищем', 'НЖ', 'НП', 'Завершен' in Latin letters
Ischem == "Ischem"
NZh == "NZh"
NP == "NP"
Zavershen == "Zavershen"

Range(s) == {s[i] : i \in DOMAIN s}

\* Python round(p / q) for p >= 0, q > 0: round half to even
RoundUp(p, q) == (p + q - 1) \div q
Round(p, q) ==
    LET f == p \div q
        r == p % q
    IN  IF 2 * r < q THEN f
        ELSE IF 2 * r > q THEN f + 1
        ELSE IF f % 2 = 0 THEN f ELSE f + 1

-----------------------------------------------------------------------------
(* get_list_of_searches_for_first_post_and_status_update *)

\* one line of base_table from one line of raw_sql_extract
\* raw line: [search_forum_num, search_start_time, timestamp, num_of_checks, count]
\* new_line = [line[0], line[1], line[3], line[5], line[4]]
new_line(line) ==
    LET \* datetime.datetime(1, 1, 1, 0, 0), below every timestamp of the tables
        oldest_date == 0
    IN
        [id      |-> line.search_forum_num,
         start   |-> line.search_start_time,
         upd     |-> IF line.timestamp = NULL THEN oldest_date ELSE line.timestamp,
         folder  |-> line.count,
         checks  |-> IF line.num_of_checks = NULL \/ line.num_of_checks = 0
                     THEN 1 ELSE line.num_of_checks]

\* list.sort(key=...): stable, ascending in the integer key k[row]
\* (insertion behind every row whose key is not larger)
RECURSIVE InsertByKey(_, _, _)
InsertByKey(s, x, k) ==
    IF s = <<>> THEN <<x>>
    ELSE IF k[x] < k[Head(s)] THEN <<x>> \o s
    ELSE <<Head(s)>> \o InsertByKey(Tail(s), x, k)
RECURSIVE SortBy(_, _)
SortBy(s, k) ==
    IF Len(s) = 0 THEN <<>>
    ELSE InsertByKey(SortBy(SubSeq(s, 1, Len(s) - 1), k), s[Len(s)], k)

\* for j in range(len(base_table)): take rows not yet in outcome_list while
\* group_of_searches > 0, break when it is 0
RECURSIVE WalkNoDedup(_, _, _, _)
WalkNoDedup(table, j, outcome, group) ==
    IF j > Len(table) THEN <<>>
    ELSE IF group > 0
         THEN <<table[j]>> \o WalkNoDedup(table, j + 1, outcome, group - 1)
         ELSE <<>>
RECURSIVE Walk(_, _, _, _)
Walk(table, j, outcome, group) ==
    IF j > Len(table) THEN <<>>
    ELSE IF table[j].id \notin {outcome[i].id : i \in DOMAIN outcome} /\ group > 0
         THEN <<table[j]>> \o
              Walk(table, j + 1, Append(outcome, table[j]), group - 1)
         ELSE IF group = 0 THEN <<>>
         ELSE Walk(table, j + 1, outcome, group)

\* num_of_searches = round(len(base_table) * percent_of_searches / 100)
num_of_searches(n, percent_of_searches) == Round(n * percent_of_searches, 100)

\* group_of_searches = round(weights[c] / 100 * num_of_searches)
group_of_searches_up(weight, num) == RoundUp(weight * num, 100)
group_of_searches(weight, num) == Round(weight * num, 100)

\* the sort keys of the first four criteria
key_start_time_asc(t) == [r \in Range(t) |-> r.start]
key_start_time(t) == [r \in Range(t) |-> 0 - r.start]
\* random.shuffle: the rows rearranged by a permutation of the positions
RECURSIVE ShuffledFrom(_, _, _)
ShuffledFrom(t, shuffle, i) ==
    IF i > Len(t) THEN <<>>
    ELSE <<t[shuffle[i]]>> \o ShuffledFrom(t, shuffle, i + 1)
Shuffled(t, shuffle) == ShuffledFrom(t, shuffle, 1)

RECURSIVE NewLines(_)
NewLines(raw) ==
    IF raw = <<>> THEN <<>> ELSE <<new_line(Head(raw))>> \o NewLines(Tail(raw))

Concat5(p) == p[1] \o p[2] \o p[3] \o p[4] \o p[5]

\* The five passes over base_table.  shuffle is the permutation that
\* random.shuffle applies.  The result is the picks of each criterion; a
\* raised exception (IndexError in pass 1, TypeError in a sort) leaves the
\* picks made so far.
criteria_picks(raw_sql_extract, percent_of_searches, weights, shuffle) ==
    LET \* list.sort raises TypeError when a key is None and a comparison is made
        SortRaises(s, isNone) ==
            Len(s) >= 2 /\ \E i \in 1..Len(s) : isNone[s[i]]
        key_checks_made(t) == [r \in Range(t) |-> r.checks]
        key_folder_weight(t) == [r \in Range(t) |-> 0 - r.folder]
        key_upd_time(t) == [r \in Range(t) |-> r.upd]
        Min(a, b) == IF a < b THEN a ELSE b
        base  == NewLines(raw_sql_extract)
        n     == Len(base)
        num   == num_of_searches(n, percent_of_searches)
        none  == <<>>
        \* 1. search_start_time, newest first
        t1    == SortBy(base, key_start_time(base))
        g1    == group_of_searches(weights.start_time, num)
        p1    == SubSeq(t1, 1, Min(g1, n))
        exc1  == g1 > n
        \* 2. search_update_time, oldest first
        t2    == SortBy(t1, key_upd_time(t1))
        p2    == Walk(t2, 1, p1, group_of_searches(weights.upd_time, num))
        \* 3. folder weight, biggest first
        exc3  == SortRaises(t2, [r \in Range(t2) |-> r.folder = NULL])
        t3    == SortBy(t2, key_folder_weight(t2))
        p3    == Walk(t3, 1, p1 \o p2,
                      group_of_searches(weights.folder_weight, num))
        \* 4. number of checks already made, fewest first
        t4    == SortBy(t3, key_checks_made(t3))
        p4    == Walk(t4, 1, p1 \o p2 \o p3,
                      group_of_searches(weights.checks_made, num))
        \* 5. random
        t5    == Shuffled(t4, shuffle)
        p5    == Walk(t5, 1, p1 \o p2 \o p3 \o p4,
                      group_of_searches(weights.random, num))
    IN  IF exc1 THEN <<p1, none, none, none, none>>
        ELSE IF exc3 THEN <<p1, p2, none, none, none>>
        ELSE <<p1, p2, p3, p4, p5>>

\* the function: nothing is read or picked unless percent_of_searches > 0
get_list_ignoring_percent(raw_sql_extract, percent_of_searches, weights, shuffle) ==
    Concat5(criteria_picks(raw_sql_extract, 100, weights, shuffle))
get_list_of_searches_for_first_post_and_status_update(raw_sql_extract, percent_of_searches, weights, shuffle) ==
    IF percent_of_searches > 0
    THEN Concat5(criteria_picks(raw_sql_extract, percent_of_searches,
                                weights, shuffle))
    ELSE <<>>

\* the ids of a list of rows (line[0] of each line)
Ids(rows) == [i \in DOMAIN rows |-> rows[i].id]

Permutations1(n) ==
    {f \in [1..n -> 1..n] : \A i, j \in 1..n : f[i] = f[j] => i = j}

-----------------------------------------------------------------------------
(* The forum: what requests_session.get can give for a topic *)

\* A page is described by what the code asks of it: the results of
\* content.find for the markers, whether content[3000] exists, the status the
\* title classifies as, and the text of the first post after the cuts.
Page(gw502, gw, nf, del, hid, long, status, post) ==
    [find_502_bad_gateway |-> gw502,   \* content.find('502 Bad Gateway')
     find_bad_gateway     |-> gw,      \* content.find('Bad Gateway')
     find_not_found       |-> nf,      \* content.find('Запрошенной темы не существует')
     find_deleted         |-> del,     \* content.find('Запрошенной темы не существует.')
     find_hidden          |-> hid,     \* content.find('Для просмотра этого форума ...')
     longer_than_3000     |-> long,
     status               |-> status,
     post                 |-> post]

\* a topic page whose first post is text p; the title of post 1 says
\* 'пропал' (status 'Ищем'), the titles of the other posts say 'НЖ'
TopicPage(p) ==
    Page(-1, -1, -1, -1, -1, TRUE, IF p = 1 THEN Ischem ELSE NZh, p)
\* the forum's answer for a deleted topic
NotFoundPage == Page(-1, -1, 1, 1, -1, TRUE, NULLS, 0)
\* the error text of the gateway inside a page of more than 3000 characters
LongBadGatewayPage == Page(1, 5, -1, -1, -1, TRUE, NULLS, 0)

Pages ==
    LET \* the short error page of the gateway
        BadGatewayPage == Page(1, 5, -1, -1, -1, FALSE, NULLS, 0)
        \* the forum's answer for a topic of a closed folder
        HiddenPage == Page(-1, -1, -1, -1, 1, TRUE, NULLS, 0)
    IN
        {TopicPage(p) : p \in 1..MaxPost}
            \cup {NotFoundPage, HiddenPage, BadGatewayPage, LongBadGatewayPage}

\* the exceptions parse_search counts and reports to the admin
CountedExceptions == {"ReadTimeout", "Timeout", "ConnectionError"}

\* what one requests_session.get does: a page, or an exception
\* ("ConnectionError" is the builtin class the third handler names,
\* "requests.ConnectionError" the class requests raises when the connection
\* fails, "Exception" any other exception the handlers do not name)
FetchOutcomes ==
    {[kind |-> "content", page |-> pg] : pg \in Pages}
        \cup {[kind |-> k, page |-> NotFoundPage] :
                 k \in CountedExceptions
                          \cup {"requests.ConnectionError", "Exception"}}

-----------------------------------------------------------------------------
(* publish_to_pubsub, notify_admin, parse_search *)

\* the process state the callees share at the start of a step: the tables
\* they write, the counter, the messages published in the step and the clock
World ==
    [health |-> search_health_check, posts |-> search_first_posts,
     counter |-> bad_gateway_counter, published |-> <<>>, now |-> now,
     raised |-> FALSE]

publish_to_pubsub(w, topic_name, message) ==
    [w EXCEPT !.published = Append(@, [topic |-> topic_name, message |-> message])]

notify_admin(w, message) == publish_to_pubsub(w, "topic_notify_admin", message)

\* parse_search: the world after the request
parse_search(w, outcome) ==
    IF outcome.kind \in CountedExceptions
    THEN [notify_admin(w, outcome.kind) EXCEPT !.counter = @ + 1]
    ELSE w

\* parse_search: content is not None (and not empty)
has_content(outcome) == outcome.kind = "content"

-----------------------------------------------------------------------------
(* check_topic_visibility, update_one_topic_visibility *)

\* the returned (bad_gateway, visibility) and whether content[3000] raised
check_topic_visibility_after_0(outcome) ==
    IF has_content(outcome)
    THEN LET c == outcome.page
             bad_gateway == 0 > 0
             test_old    == c.find_bad_gateway > 0
         IN  [bad_gateway |-> bad_gateway,
              notified    |-> test_old,
              raised      |-> test_old /\ ~c.longer_than_3000,
              visibility  |-> IF bad_gateway THEN "regular"
                              ELSE IF c.find_hidden > 0 THEN "hidden"
                              ELSE IF c.find_deleted > 0 THEN "deleted"
                              ELSE "regular"]
    ELSE [bad_gateway |-> FALSE, notified |-> FALSE, raised |-> FALSE,
          visibility |-> "regular"]
check_topic_visibility(outcome) ==
    IF has_content(outcome)
    THEN LET c == outcome.page
             \* content.find('') is 0 for every content
             bad_gateway == 0 > 0
             test_old    == c.find_bad_gateway > 0
         IN  [bad_gateway |-> bad_gateway,
              notified    |-> test_old,
              raised      |-> test_old /\ ~c.longer_than_3000,
              visibility  |-> IF bad_gateway THEN "regular"
                              ELSE IF c.find_hidden > -1 THEN "hidden"
                              ELSE IF c.find_deleted > -1 THEN "deleted"
                              ELSE "regular"]
    ELSE [bad_gateway |-> FALSE, notified |-> FALSE, raised |-> FALSE,
          visibility |-> "regular"]

\* a DELETE that removes no row
delete_health_none(table, search_id) == table

\* DELETE FROM search_health_check WHERE search_forum_num = :a
delete_health(table, search_id) ==
    SelectSeq(table, LAMBDA r : r.search_forum_num # search_id)

\* INSERT INTO search_health_check (search_forum_num, timestamp, status)
insert_health(table, search_id, ts, visibility) ==
    Append(table, [search_forum_num |-> search_id, timestamp |-> ts,
                   status |-> visibility])

\* update_one_topic_visibility(search_id): fail is the statement of the try
\* block that raises (0: none, 1: the DELETE, 2: the INSERT); every statement
\* is committed on its own
update_one_topic_visibility(w, search_id, outcome, fail) ==
    LET w1 == parse_search(w, outcome)
        v  == check_topic_visibility(outcome)
        w2 == IF v.notified /\ ~v.raised
              THEN notify_admin(w1, "BadGateway") ELSE w1
    IN  IF v.raised THEN [w1 EXCEPT !.raised = TRUE]
        ELSE IF ~v.bad_gateway
        THEN IF fail = 1 THEN w2
             ELSE IF fail = 2
             THEN [w2 EXCEPT !.health = delete_health(@, search_id)]
             ELSE [w2 EXCEPT
                     !.health = insert_health(delete_health(@, search_id),
                                              search_id, w2.now, v.visibility)]
        ELSE [w2 EXCEPT !.counter = @ + 1]

-----------------------------------------------------------------------------
(* parse_first_post *)

\* hashlib.md5(content.encode()).hexdigest() of a first-post text
md5(text) == 1000 + text

\* status in {'НЖ', 'НП', 'Завершен'} is sent to topic management
get_status_and_send_any(w, topic_id, page) ==
    IF page.status # NULLS
    THEN publish_to_pubsub(w, "topic_for_topic_management",
                           [topic_id |-> topic_id, status |-> page.status])
    ELSE w
get_status_from_content_and_send_to_topic_management(w, topic_id, page) ==
    IF page.status \in {NZh, NP, Zavershen}
    THEN publish_to_pubsub(w, "topic_for_topic_management",
                           [topic_id |-> topic_id, status |-> page.status])
    ELSE w

\* the returned (hash_num, content, bad_gateway, not_found)
parse_first_post(outcome) ==
    IF has_content(outcome)
    THEN LET c   == outcome.page
             bg  == c.find_502_bad_gateway > 0
             nf  == c.find_not_found > 0
         IN  IF ~bg /\ ~nf
             THEN [hash_num |-> md5(c.post), content |-> c.post,
                   bad_gateway |-> bg, not_found |-> nf]
             ELSE [hash_num |-> NULL, content |-> c.post,
                   bad_gateway |-> bg, not_found |-> nf]
    ELSE [hash_num |-> NULL, content |-> NULL,
          bad_gateway |-> FALSE, not_found |-> FALSE]

\* the world after parse_first_post
parse_first_post_world(w, search_num, outcome) ==
    LET w1 == parse_search(w, outcome)
        r  == parse_first_post(outcome)
    IN  IF has_content(outcome) /\ ~r.bad_gateway /\ ~r.not_found
        THEN get_status_from_content_and_send_to_topic_management(
                 w1, search_num, outcome.page)
        ELSE w1

-----------------------------------------------------------------------------
(* the statements of update_first_posts_and_statuses on search_first_posts *)

\* SELECT content_hash, num_of_checks, content FROM search_first_posts
\* WHERE search_id = :a AND actual = TRUE   (the rows fetchone() chooses from)
select_any(table, search_id) ==
    {i \in DOMAIN table : table[i].search_id = search_id}
select_actual(table, search_id) ==
    {i \in DOMAIN table : table[i].search_id = search_id /\ table[i].actual}

\* UPDATE search_first_posts SET actual = FALSE WHERE search_id = :a
set_not_actual_skipped(table, search_id) == table
set_not_actual(table, search_id) ==
    [i \in DOMAIN table |->
        IF table[i].search_id = search_id
        THEN [table[i] EXCEPT !.actual = FALSE] ELSE table[i]]

\* INSERT INTO search_first_posts (search_id, timestamp, actual, content_hash,
\* content, num_of_checks) VALUES (:a, :b, TRUE, :c, :d, 1)
insert_first_post_no_counter(table, search_id, ts, hash, content) ==
    Append(table, [search_id |-> search_id, timestamp |-> ts, actual |-> TRUE,
                   content_hash |-> hash, content |-> content,
                   num_of_checks |-> NULL])
insert_first_post(table, search_id, ts, hash, content) ==
    Append(table, [search_id |-> search_id, timestamp |-> ts, actual |-> TRUE,
                   content_hash |-> hash, content |-> content,
                   num_of_checks |-> 1])

\* UPDATE search_first_posts SET num_of_checks = :a
\* WHERE search_id = :b AND actual = True
set_num_of_checks_all(table, search_id, n) ==
    [i \in DOMAIN table |->
        IF table[i].search_id = search_id
        THEN [table[i] EXCEPT !.num_of_checks = n] ELSE table[i]]
set_num_of_checks(table, search_id, n) ==
    [i \in DOMAIN table |->
        IF table[i].search_id = search_id /\ table[i].actual
        THEN [table[i] EXCEPT !.num_of_checks = n] ELSE table[i]]

\* The body of the for loop for one line: the world after it and the new
\* list_of_searches_with_updated_first_posts.  row is the index fetchone()
\* returned (0: no row); fail is the statement that raises (0: none, 1: the
\* SELECT, 2: the first UPDATE or INSERT, 3: the INSERT after the UPDATE);
\* outcome2 and fail2 are the request and the failure of the visibility
\* update made for a not-found page.
check_one_first_post(w, upd, search_id, outcome, row, fail, outcome2, fail2) ==
    LET w1 == parse_first_post_world(w, search_id, outcome)
        r  == parse_first_post(outcome)
        raise(x) == [world |-> [x EXCEPT !.raised = TRUE], updated |-> upd]
        ok(x)    == [world |-> x, updated |-> upd]
    IN  IF ~r.bad_gateway /\ ~r.not_found
        THEN IF fail = 1 THEN raise(w1)
             ELSE IF row # 0
             THEN LET last_hash == w1.posts[row].content_hash
                      prev_number_of_checks ==
                          IF w1.posts[row].num_of_checks = NULL
                                \/ w1.posts[row].num_of_checks = 0
                          THEN 1 ELSE w1.posts[row].num_of_checks
                  IN  IF r.hash_num # last_hash
                      THEN IF fail = 2 THEN raise(w1)
                           ELSE LET w2 == [w1 EXCEPT !.posts =
                                              set_not_actual(@, search_id)]
                                IN  IF fail = 3 THEN raise(w2)
                                    ELSE [world |-> [w2 EXCEPT
                                              !.posts = insert_first_post(@,
                                                  search_id, w2.now,
                                                  r.hash_num, r.content)],
                                          updated |-> Append(upd, search_id)]
                      ELSE IF fail = 2 THEN raise(w1)
                           ELSE ok([w1 EXCEPT !.posts = set_num_of_checks(@,
                                       search_id, prev_number_of_checks + 1)])
             ELSE IF fail = 2 THEN raise(w1)
                  ELSE ok([w1 EXCEPT
                             !.posts = insert_first_post(@, search_id, w1.now,
                                                         r.hash_num, r.content)])
        ELSE IF r.bad_gateway
        THEN ok([w1 EXCEPT !.counter = @ + 1])
        ELSE ok(update_one_topic_visibility(w1, search_id, outcome2, fail2))

-----------------------------------------------------------------------------
(* Selector specification: the selector applied to bounded inputs *)

\* the weights main passes
main_weights ==
    [start_time |-> 20, upd_time |-> 20, folder_weight |-> 20,
     checks_made |-> 20, random |-> 20]
\* the percent main passes
percent_of_first_posts_to_check == 20

Weights(a, b, c, d, e) ==
    [start_time |-> a, upd_time |-> b, folder_weight |-> c,
     checks_made |-> d, random |-> e]

WeightSets ==
    { main_weights,
      Weights(30, 30, 30, 5, 5),
      Weights(0, 70, 30, 0, 0),
      Weights(0, 0, 70, 30, 0),
      Weights(0, 0, 0, 70, 30),
      Weights(150, 50, 50, 0, 0) }

Percents == {0, percent_of_first_posts_to_check, 67, 100}

NoPicks == <<<<>>, <<>>, <<>>, <<>>, <<>>>>

NoSel == [raw |-> <<>>, percent |-> 0, weights |-> main_weights,
          picks |-> NoPicks, out |-> <<>>, done |-> FALSE]

NoLast == [op |-> "none"]

\* the tables and the process are idle in the selector specification
InitSel ==
    LET RawLine(i, k) ==
            [search_forum_num |-> i, search_start_time |-> k.search_start_time,
             timestamp |-> k.timestamp, num_of_checks |-> k.num_of_checks,
             count |-> k.count]
        \* the (start time, snapshot timestamp, num_of_checks, folder count) of a line
        \* of raw_sql_extract; timestamp and num_of_checks come from the same
        \* LEFT JOINed snapshot row, so a NULL timestamp comes with NULL num_of_checks
        RawKinds ==
            { [search_start_time |-> 1, timestamp |-> NULL, num_of_checks |-> NULL, count |-> 1],
              [search_start_time |-> 2, timestamp |-> NULL, num_of_checks |-> NULL, count |-> 2],
              [search_start_time |-> 1, timestamp |-> 1,    num_of_checks |-> 2,    count |-> 2],
              [search_start_time |-> 2, timestamp |-> 1,    num_of_checks |-> NULL, count |-> 1],
              [search_start_time |-> 1, timestamp |-> 2,    num_of_checks |-> 1,    count |-> 1],
              [search_start_time |-> 2, timestamp |-> 2,    num_of_checks |-> 2,    count |-> NULL] }
    IN
        /\ searches = <<>>
        /\ search_health_check = <<>>
        /\ search_first_posts = <<>>
        /\ bad_gateway_counter = 0
        /\ published = <<>>
        /\ pc = "idle"
        /\ in_main = FALSE
        /\ batch = <<>>
        /\ updated = <<>>
        /\ now = 1
        /\ last = NoLast
        /\ \E n \in 0..MaxPop :
           \E kinds \in [1..n -> RawKinds] :
           \E percent \in Percents :
           \E weights \in WeightSets :
              sel = [raw |-> [i \in 1..n |-> RawLine(i, kinds[i])],
                     percent |-> percent, weights |-> weights,
                     picks |-> NoPicks, out |-> <<>>, done |-> FALSE]

\* one call of the selector on the drawn population
ApplySelector ==
    /\ ~sel.done
    /\ \E shuffle \in Permutations1(Len(sel.raw)) :
          sel' = [sel EXCEPT
                    !.picks = IF sel.percent > 0
                              THEN criteria_picks(sel.raw, sel.percent,
                                                  sel.weights, shuffle)
                              ELSE NoPicks,
                    !.out = get_list_of_searches_for_first_post_and_status_update(
                                sel.raw, sel.percent, sel.weights, shuffle),
                    !.done = TRUE]
    /\ UNCHANGED <<searches, search_health_check, search_first_posts,
                   bad_gateway_counter, published, pc, in_main, batch,
                   updated, now, last>>

SpecSel == InitSel /\ [][ApplySelector]_vars

-----------------------------------------------------------------------------
(* Page content as text, and content.find *)

\* 'Запрошенной темы не существует.'
marker_deleted == <<"NF", ".">>
\* 'Для просмотра этого форума вы должны быть авторизованы'
marker_hidden == <<"AUTH">>
\* 'Bad Gateway'
marker_bad_gateway == <<"BG">>
\* str.find(sub): the lowest index (from 0) where sub starts, -1 when absent
find_from(text, sub, i) ==
    LET starts == {j \in i..(Len(text) - Len(sub) + 1) :
                      SubSeq(text, j, j + Len(sub) - 1) = sub}
    IN  IF starts = {} THEN -1
        ELSE (CHOOSE j \in starts : \A k \in starts : j <= k) - 1
find(text, sub) == find_from(text, sub, 1)

\* the page a text with the given title status and first post is
PageOf(text, long, status, post) ==
    LET \* '502 Bad Gateway'
        marker_502_bad_gateway == <<"502", "BG">>
        \* A text is a sequence of tokens: a marker the code searches for is one or
        \* two tokens, every other character is "x".
        \* 'Запрошенной темы не существует'
        marker_not_found == <<"NF">>
    IN
        Page(find(text, marker_502_bad_gateway), find(text, marker_bad_gateway),
             find(text, marker_not_found), find(text, marker_deleted),
             find(text, marker_hidden), long, status, post)

-----------------------------------------------------------------------------
(* Visibility specification: check_topic_visibility applied to bounded texts *)

RECURSIVE TextsUpTo(_, _)
TextsUpTo(tokens, n) ==
    IF n = 0 THEN {<<>>}
    ELSE LET shorter == TextsUpTo(tokens, n - 1)
         IN  shorter \cup {Append(t, c) : t \in shorter, c \in tokens}

\* the process is idle and the tables are empty in the function specifications
IdleProgram ==
    /\ searches = <<>>
    /\ search_health_check = <<>>
    /\ search_first_posts = <<>>
    /\ bad_gateway_counter = 0
    /\ published = <<>>
    /\ pc = "idle"
    /\ in_main = FALSE
    /\ batch = <<>>
    /\ updated = <<>>
    /\ now = 1
    /\ last = NoLast

program_vars ==
    <<searches, search_health_check, search_first_posts, bad_gateway_counter,
      published, pc, in_main, batch, updated, now, last>>

InitVis ==
    LET \* the tokens of the texts handed to check_topic_visibility
        VisTokens == {"x", "NF", ".", "AUTH", "BG"}
    IN
        /\ IdleProgram
        /\ \E text \in TextsUpTo(VisTokens, MaxText) :
           \E long \in BOOLEAN :
              sel = [text |-> text, long |-> long, done |-> FALSE,
                     checked |-> check_topic_visibility(
                                     [kind |-> "Exception", page |-> NotFoundPage])]

\* requests_session.get returns the text; check_topic_visibility is applied
ApplyCheckTopicVisibility ==
    /\ ~sel.done
    /\ sel' = [sel EXCEPT
                 !.checked = check_topic_visibility(
                                 [kind |-> "content",
                                  page |-> PageOf(sel.text, sel.long, NULLS, 0)]),
                 !.done = TRUE]
    /\ UNCHANGED program_vars

SpecVis == InitVis /\ [][ApplyCheckTopicVisibility]_vars

-----------------------------------------------------------------------------
(* Claims about the visibility check (specification SpecVis) *)

Contains(text, sub) == find(text, sub) > -1

\* C11 as claimed: a fetched text with the deleted marker is classified
\* deleted, one with the hidden marker is classified hidden, one with neither
\* is classified regular, also when a marker is at position 0 or both occur
\* (texts with a gateway-error marker are left to C12).
C11_MarkersClassify ==
    (sel.done /\ ~Contains(sel.text, marker_bad_gateway)) =>
        /\ ~sel.checked.raised
        /\ Contains(sel.text, marker_deleted)
              => sel.checked.visibility = "deleted"
        /\ Contains(sel.text, marker_hidden)
              => sel.checked.visibility = "hidden"
        /\ (~Contains(sel.text, marker_deleted)
              /\ ~Contains(sel.text, marker_hidden))
              => sel.checked.visibility = "regular"

\* C11 amended: a fetched text without gateway-error marker is classified
\* hidden when it has the hidden marker (also when the deleted marker occurs
\* too), deleted when it has the deleted marker and not the hidden one, and
\* regular when it has neither, also when a marker is at position 0.
C11_HiddenBeforeDeleted ==
    (sel.done /\ ~Contains(sel.text, marker_bad_gateway)) =>
        /\ ~sel.checked.raised
        /\ sel.checked.visibility =
              IF Contains(sel.text, marker_hidden) THEN "hidden"
              ELSE IF Contains(sel.text, marker_deleted) THEN "deleted"
              ELSE "regular"

\* C11 witness: a text that starts with the deleted marker and has no hidden
\* marker was classified deleted.
C11_Witness ==
    /\ sel.done
    /\ find(sel.text, marker_deleted) = 0
    /\ ~Contains(sel.text, marker_hidden)
    /\ sel.checked.visibility = "deleted"

-----------------------------------------------------------------------------
(* The title of a topic page and the status it stands for *)

\* A title is a text whose tokens are the words the rules search for, in
\* lower or upper case, and single characters: 'пропал' "propal", 'жив'
\* "zhiv", 'пог' "pog", 'заверш' "zaversh", 'н' "n", the letters 'НЖ' "NZh",
\* any other character "x".
\* (?i): the match ignores case
lower(token) ==
    CASE token = "PROPAL" -> "propal"
      [] token = "ZHIV" -> "zhiv"
      [] token = "NZh" -> "nzh"
      [] OTHER -> token
RECURSIVE LowerText(_)
LowerText(text) ==
    IF text = <<>> THEN <<>>
    ELSE <<lower(Head(text))>> \o LowerText(Tail(text))

\* re.search(r'(?i).{0,10}пропал.*', title)
missed_propal(title) == find(LowerText(title), <<"propal">>) > -1
\* re.search(r'(?i).{0,10}(?:найден|).{0,5}жив', title)
missed_zhiv_or_letters(title) ==
    \/ find(LowerText(title), <<"zhiv">>) > -1
    \/ find(LowerText(title), <<"nzh">>) > -1
missed_zhiv(title) == find(LowerText(title), <<"zhiv">>) > -1
\* re.search(r'(?i).{0,10}(?:найден|).{0,5}пог', title)
missed_pog(title) == find(LowerText(title), <<"pog">>) > -1
\* re.search(r'(?i).{0,10}заверш.н', title)
missed_zavershen(title) ==
    LET \* the tokens that are one character, which '.' matches
        one_character == {"x", "n"}
    IN
        \E c \in one_character :
            find(LowerText(title), <<"zaversh", c, "n">>) > -1

\* The content of a topic page as the classifier reads it: whether it has the
\* block <h2 class="topic-title"><a href=...>...</a>, and the text of the
\* anchor.  The title is None without the block; None and '' are both falsy.
title_of(content) ==
    IF content.title_block THEN content.title ELSE <<>>

\* the status of a title: the rules in the order of the code
status_of_title_zhiv_first(title) ==
    IF title = <<>> THEN NULLS
    ELSE IF missed_zhiv(title) THEN NZh
    ELSE IF missed_propal(title) THEN Ischem
    ELSE IF missed_pog(title) THEN NP
    ELSE IF missed_zavershen(title) THEN Zavershen
    ELSE NULLS
status_of_title(title) ==
    IF title = <<>> THEN NULLS
    ELSE IF missed_propal(title) THEN Ischem
    ELSE IF missed_zhiv(title) THEN NZh
    ELSE IF missed_pog(title) THEN NP
    ELSE IF missed_zavershen(title) THEN Zavershen
    ELSE NULLS

\* a topic page with the given title content and first post 1
TitledPage(content) ==
    Page(-1, -1, -1, -1, -1, TRUE, status_of_title(title_of(content)), 1)

-----------------------------------------------------------------------------
(* Status specification: the classifier applied to bounded titles *)

InitStatus ==
    LET TitleTokens == {"x", "n", "propal", "PROPAL", "zhiv", "ZHIV", "pog", "zaversh", "NZh"}
    IN
        /\ IdleProgram
        /\ \E title \in TextsUpTo(TitleTokens, MaxText) :
           \E title_block \in BOOLEAN :
           \E topic_id \in 1..NumSearches :
              sel = [content |-> [title_block |-> title_block, title |-> title],
                     topic_id |-> topic_id, status |-> NULLS, done |-> FALSE]

\* get_status_from_content_and_send_to_topic_management(topic_id, act_content)
ApplyGetStatus ==
    /\ ~sel.done
    /\ LET page == TitledPage(sel.content)
           w == get_status_from_content_and_send_to_topic_management(
                    World, sel.topic_id, page)
       IN  /\ published' = w.published
           /\ sel' = [sel EXCEPT !.status = page.status, !.done = TRUE]
    /\ UNCHANGED <<searches, search_health_check, search_first_posts,
                   bad_gateway_counter, pc, in_main, batch, updated, now, last>>

SpecStatus == InitStatus /\ [][ApplyGetStatus]_vars

-----------------------------------------------------------------------------
(* Claims about the status classifier (specification SpecStatus) *)

\* the title has the word, in lower or upper case
HasWord(title, low, up) ==
    \E i \in DOMAIN title : title[i] = low \/ title[i] = up
\* the title has 'заверш', one character and 'н'
HasZavershen(title) ==
    \E i \in 1..(Len(title) - 2) :
        /\ title[i] = "zaversh"
        /\ title[i + 1] \in {"x", "n"}
        /\ title[i + 2] = "n"
\* the title the page shows, if it shows one
ShownTitle == IF sel.content.title_block THEN sel.content.title ELSE <<>>

title_propal == <<"x", "propal">>
title_letters == <<"x", "NZh">>
title_plain == <<"x">>

\* the status message of the classified topic, and nothing else, was published
Reported(status) ==
    published = <<[topic |-> "topic_for_topic_management",
                   message |-> [topic_id |-> sel.topic_id, status |-> status]]>>

\* C15 as claimed: 'Иванов Иван, 45, пропал' gives Searching and nothing is
\* reported, 'Иванов Иван, 45 НЖ' gives FoundAlive and is reported, a title
\* without keyword gives none.
C15_ExampleTitles ==
    (sel.done /\ sel.content.title_block) =>
        /\ sel.content.title = title_propal
              => (sel.status = Ischem /\ published = <<>>)
        /\ sel.content.title = title_letters
              => (sel.status = NZh /\ Reported(NZh))
        /\ sel.content.title = title_plain
              => (sel.status = NULLS /\ published = <<>>)

\* C15 amended: 'Иванов Иван, 45, пропал' gives Searching and nothing is
\* reported, 'Иванов Иван, 45 НЖ' gives none and nothing is reported (the
\* rule looks for 'жив'), 'Иванов Иван, 45, жив' gives FoundAlive and is
\* reported, a title without keyword gives none.
C15_ExampleTitlesByRules ==
    LET title_zhiv == <<"x", "zhiv">>
    IN
        (sel.done /\ sel.content.title_block) =>
            /\ sel.content.title = title_propal
                  => (sel.status = Ischem /\ published = <<>>)
            /\ sel.content.title = title_letters
                  => (sel.status = NULLS /\ published = <<>>)
            /\ sel.content.title = title_zhiv
                  => (sel.status = NZh /\ Reported(NZh))
            /\ sel.content.title = title_plain
                  => (sel.status = NULLS /\ published = <<>>)

\* C15 witness: the title 'Иванов Иван, 45 НЖ' was classified none.
C15_Witness ==
    /\ sel.done
    /\ sel.content.title_block
    /\ sel.content.title = title_letters
    /\ sel.status = NULLS
    /\ published = <<>>

\* C16: a status message {topic_id, status} is published if and only if the
\* classified status is FoundAlive, FoundDeceased or Completed; for
\* Searching, for none and without a title nothing is published.
C16_ReportableOnly ==
    sel.done =>
        LET t == ShownTitle
            searching == HasWord(t, "propal", "PROPAL")
            reportable ==
                /\ t # <<>>
                /\ ~searching
                /\ \/ HasWord(t, "zhiv", "ZHIV")
                   \/ HasWord(t, "pog", "pog")
                   \/ HasZavershen(t)
        IN  /\ reportable => (sel.status \in {NZh, NP, Zavershen}
                                 /\ Reported(sel.status))
            /\ ~reportable => published = <<>>

\* C16 witness: a title with 'заверш.н' was classified Completed and the
\* message was published.
C16_Witness ==
    /\ sel.done
    /\ sel.status = Zavershen
    /\ Reported(Zavershen)

-----------------------------------------------------------------------------
(* The text of a first post and its fingerprint *)

\* A first post, after the cuts between <div class="content"> and
\* <div class="back2top">, is a sequence of pieces:
\*   kind "text"  : tail is the piece itself, never matched by a pattern
\*   kind "views" : ') v просмотр' followed by tail ("" or "ov" for 'ов')
\*   kind "value" : 'value="..."' with tail characters between the quotes
\*   kind "sid"   : 'sid=' and 32 characters v, followed by '&amp;' (tail
\*                  "amp") or by the quote that closes the link (tail "quote")
Piece(kind, v, tail) == [kind |-> kind, v |-> v, tail |-> tail]

\* re.findall(r'\) \d+ просмотр(?:а|ов)?', content)
findall_views(content) == SelectSeq(content, LAMBDA p : p.kind = "views")

\* content.replace(word, ")") for one word found by findall_views: the word
\* is replaced wherever its characters occur, inside a longer counter too
RECURSIVE replace_views(_, _)
replace_views(content, word) ==
    LET closing_bracket == Piece("text", 0, ")")
    IN
        IF content = <<>> THEN <<>>
        ELSE LET p == Head(content)
                 rest == replace_views(Tail(content), word)
             IN  IF p.kind = "views" /\ p.v = word.v /\ p.tail = word.tail
                 THEN <<closing_bracket>> \o rest
                 ELSE IF p.kind = "views" /\ p.v = word.v /\ word.tail = ""
                      THEN <<closing_bracket, Piece("text", 0, p.tail)>> \o rest
                      ELSE <<p>> \o rest

RECURSIVE replace_each_views(_, _)
replace_each_views(content, patterns) ==
    IF patterns = <<>> THEN content
    ELSE replace_each_views(replace_views(content, Head(patterns)),
                            Tail(patterns))

\* re.findall of value="\S{10}", value="\S{32}", value="\S{40}" and
\* sid=\S{32}&amp; (the timing footer lies after the back2top cut)
findall_tokens(content) ==
    LET \* the lengths of value="..." the patterns name
        value_lengths == {"10", "32", "40"}
    IN
        SelectSeq(content, LAMBDA p : \/ p.kind = "value" /\ p.tail \in value_lengths
                                      \/ p.kind = "sid" /\ p.tail = "amp")

\* content.replace(word, '')
replace_token(content, word) == SelectSeq(content, LAMBDA p : p # word)

RECURSIVE replace_each_token(_, _)
replace_each_token(content, patterns) ==
    IF patterns = <<>> THEN content
    ELSE replace_each_token(replace_token(content, Head(patterns)),
                            Tail(patterns))

\* the text parse_first_post hashes and stores
cleaned_content(content) ==
    LET no_views == replace_each_views(content, findall_views(content))
    IN  replace_each_token(no_views, findall_tokens(no_views))

\* hashlib.md5(content.encode()).hexdigest(): equal texts and only equal
\* texts have the same digest
hexdigest(content) == [md5_of |-> content]

\* the hash parse_first_post returns for a first post
first_post_hash(content) == hexdigest(cleaned_content(content))

-----------------------------------------------------------------------------
(* Fingerprint specification: the fingerprint of two first posts that differ *)
(* only in view counters and volatile tokens                                 *)

\* the number of different counters, and of different values of a token
MaxNoise == 2

ViewPieces == { Piece("views", v, tail) : v \in 1..MaxNoise, tail \in {"", "ov"} }
ValuePieces == { Piece("value", v, "10") : v \in 1..MaxNoise }
SidPieces == { Piece("sid", v, tail) : v \in 1..MaxNoise, tail \in {"amp", "quote"} }
Pieces ==
    LET TextPieces == { Piece("text", 0, "a"), Piece("text", 0, "b") }
    IN
              TextPieces \cup ViewPieces \cup ValuePieces \cup SidPieces

\* the pieces that may stand in the place of p in a text that differs from
\* the text of p only in view counters and volatile tokens
Alike(p) ==
    CASE p.kind = "views" -> ViewPieces
      [] p.kind = "value" -> ValuePieces
      [] p.kind = "sid"   -> { q \in SidPieces : q.tail = p.tail }
      [] OTHER            -> {p}

RECURSIVE NoiseVariants(_)
NoiseVariants(content) ==
    IF content = <<>> THEN { <<>> }
    ELSE { <<q>> \o rest : q \in Alike(Head(content)),
                           rest \in NoiseVariants(Tail(content)) }

InitHash ==
    /\ IdleProgram
    /\ \E first \in TextsUpTo(Pieces, MaxText) :
       \E second \in NoiseVariants(first) :
          sel = [first |-> first, second |-> second, done |-> FALSE,
                 hash1 |-> hexdigest(<<>>), hash2 |-> hexdigest(<<>>)]

\* parse_first_post hashes the first post fetched at two moments
ApplyFirstPostHash ==
    /\ ~sel.done
    /\ sel' = [sel EXCEPT !.hash1 = first_post_hash(sel.first),
                          !.hash2 = first_post_hash(sel.second),
                          !.done = TRUE]
    /\ UNCHANGED program_vars

SpecHash == InitHash /\ [][ApplyFirstPostHash]_vars

-----------------------------------------------------------------------------
(* Claims about the fingerprint (specification SpecHash) *)

\* C17: two fetched contents that differ only in view counters or volatile
\* tokens (10/32/40-character quoted values, sid query parameter) have the
\* same fingerprint
C17_NoiseIgnored == sel.done => sel.hash1 = sel.hash2

-----------------------------------------------------------------------------
(* Fetch specification: parse_search applied to every outcome of the request *)

InitFetch ==
    /\ searches = <<>>
    /\ search_health_check = <<>>
    /\ search_first_posts = <<>>
    /\ bad_gateway_counter \in 0..(3 + MaxBadGateway)
    /\ published = <<>>
    /\ pc = "idle"
    /\ in_main = FALSE
    /\ batch = <<>>
    /\ updated = <<>>
    /\ now = 1
    /\ last = NoLast
    /\ \E search_num \in 1..NumSearches :
       \E outcome \in FetchOutcomes :
          sel = [search_num |-> search_num, outcome |-> outcome,
                 counter |-> bad_gateway_counter, done |-> FALSE,
                 content |-> FALSE, raised |-> FALSE]

\* content = parse_search(search_num): every exception is caught
ApplyParseSearch ==
    /\ ~sel.done
    /\ LET w == parse_search(World, sel.outcome)
       IN  /\ bad_gateway_counter' = w.counter
           /\ published' = w.published
           /\ sel' = [sel EXCEPT !.content = has_content(sel.outcome),
                                 !.raised = w.raised,
                                 !.done = TRUE]
    /\ UNCHANGED <<searches, search_health_check, search_first_posts, pc,
                   in_main, batch, updated, now, last>>

SpecFetch == InitFetch /\ [][ApplyParseSearch]_vars

-----------------------------------------------------------------------------
(* Claims about the fetch (specification SpecFetch) *)

\* C21: a fetch that fails with a read timeout, another timeout or a
\* connection error returns no content and does not raise, adds one to the
\* counter of bad gateways and publishes one notification to the admin.
C21_TransientFailureCounted ==
    LET \* the failures of a request that are transient: the two timeouts, the
        \* builtin ConnectionError and the ConnectionError of requests, which is a
        \* RequestException (an IOError) and not a subclass of the builtin one
        TransientFailures ==
            {"ReadTimeout", "Timeout", "ConnectionError", "requests.ConnectionError"}
    IN
        (sel.done /\ sel.outcome.kind \in TransientFailures)
            => /\ ~sel.content
               /\ ~sel.raised
               /\ bad_gateway_counter = sel.counter + 1
               /\ Len(published) = 1
               /\ published[1].topic = "topic_notify_admin"

-----------------------------------------------------------------------------
(* communicate/main.py: update_and_download_list_of_regions *)

\* A table that holds the rows of one user is the number of rows of each key
\* (user_regional_preferences: forum_folder_num, user_preferences:
\* preference); the queries do not depend on the order of the rows.
RECURSIVE SumOver(_, _)
SumOver(table, keys) ==
    IF keys = {} THEN 0
    ELSE LET k == CHOOSE x \in keys : TRUE
         IN  table[k] + SumOver(table, keys \ {k})

\* len(cur.fetchall()) of SELECT ... WHERE user_id = %s
RowCount(table) == SumOver(table, DOMAIN table)

\* the buttons of three regions of reg_dict and their folders
reg_dict ==
    [ b \in {"Vladimirskaya obl.", "Moskva i MO: Aktivnye Poiski",
             "Moskva i MO: Info Podderzhka"} |->
        CASE b = "Vladimirskaya obl." -> <<123, 233>>
          [] b = "Moskva i MO: Aktivnye Poiski" -> <<276>>
          [] b = "Moskva i MO: Info Podderzhka" -> <<41>> ]

\* a button of fed_okr_dict
fed_okr_dict == {"Centralny FO"}

b_menu_set_region == "nastroit region poiskov"
b_fed_dist_pick_other == "vybrat drugoy Federalny Okrug"

\* DELETE FROM user_regional_preferences WHERE user_id=%s and
\* forum_folder_num=%s, for the first n regions of the list
RECURSIVE delete_regions(_, _, _)
delete_regions(table, list, n) ==
    IF n = 0 THEN table
    ELSE [delete_regions(table, list, n - 1) EXCEPT ![list[n]] = 0]

\* INSERT INTO user_regional_preferences (user_id, forum_folder_num), for the
\* first n regions of the list
RECURSIVE insert_regions(_, _, _)
insert_regions(table, list, n) ==
    IF n = 0 THEN table
    ELSE [insert_regions(table, list, n - 1) EXCEPT ![list[n]] = @ + 1]

\* region_is_the_only, for a region that was in the table
region_is_the_only(table, list) == RowCount(table) - Len(list) < 1

\* The table after update_and_download_list_of_regions(cur, user_id,
\* got_message, ...).  fail is the statement of the try block that raises
\* (0: none, 1: the SELECT, 1 + k: the k-th statement of the loop); the
\* connection commits every statement, the exception is logged.
update_and_download_list_of_regions(table, got_message, fail) ==
    IF got_message = b_menu_set_region THEN table
    ELSE IF got_message \in fed_okr_dict \/ got_message = b_fed_dist_pick_other
    THEN table
    ELSE LET list_of_regs_to_upload == reg_dict[got_message]
             done == IF fail = 0 \/ fail - 1 > Len(list_of_regs_to_upload)
                     THEN Len(list_of_regs_to_upload)
                     ELSE fail - 2
             region_was_in_db == table[list_of_regs_to_upload[1]] > 0
         IN  IF fail = 1 THEN table
             ELSE IF region_was_in_db
                     /\ ~region_is_the_only(table, list_of_regs_to_upload)
             THEN delete_regions(table, list_of_regs_to_upload, done)
             ELSE IF region_was_in_db THEN table
             ELSE insert_regions(table, list_of_regs_to_upload, done)

-----------------------------------------------------------------------------
(* Regions specification: the region buttons a user presses, one by one *)

\* the rows one user has in a table of communicate, at most
MaxRows == 4

\* the regions stored: none (a new user) or the folders of some regions
InitRegions ==
    LET \* the folders of the regions of reg_dict
        Folders == UNION { Range(reg_dict[b]) : b \in DOMAIN reg_dict }
    IN
        /\ IdleProgram
        /\ \E stored \in SUBSET DOMAIN reg_dict :
              sel = [user_regional_preferences |->
                        [f \in Folders |->
                            IF \E b \in stored : f \in Range(reg_dict[b])
                            THEN 1 ELSE 0],
                     got_message |-> b_menu_set_region, fail |-> 0,
                     before |-> 0]

\* main calls update_and_download_list_of_regions for a message of the user
PressRegionButton ==
    LET \* the messages main hands to update_and_download_list_of_regions
        RegionMessages ==
            DOMAIN reg_dict \cup fed_okr_dict
                \cup {b_menu_set_region, b_fed_dist_pick_other}
    IN
        /\ \E got_message \in RegionMessages :
           \E fail \in 0..3 :
              LET table == update_and_download_list_of_regions(
                               sel.user_regional_preferences, got_message, fail)
              IN  /\ RowCount(table) <= MaxRows
                  /\ sel' = [user_regional_preferences |-> table,
                             got_message |-> got_message, fail |-> fail,
                             before |-> RowCount(sel.user_regional_preferences)]
        /\ UNCHANGED program_vars

SpecRegions == InitRegions /\ [][PressRegionButton]_vars

-----------------------------------------------------------------------------
(* Claims about the regions of a user (specification SpecRegions) *)

\* C28: a user who has at least one stored region does not end with none
\* after a region button is handled.
C28_NeverWithoutRegion ==
    [][ RowCount(sel.user_regional_preferences) >= 1
            => RowCount(sel'.user_regional_preferences) >= 1 ]_vars

-----------------------------------------------------------------------------
(* communicate/main.py: save_preference and the notification keyboard *)

\* the values of the column preference, as ORDER BY preference sorts them
PreferenceOrder ==
    << "all", "bot_news", "comments_changes", "coords_change",
       "field_trips_change", "field_trips_new", "finish", "inforg_comments",
       "new_searches", "start", "status_changes", "title_changes" >>

PreferenceNames == Range(PreferenceOrder)

\* the pref_id save_preference stores with a preference
pref_id_of(preference) ==
    CASE preference = "new_searches" -> 0
      [] preference = "status_changes" -> 1
      [] preference = "title_changes" -> 2
      [] preference = "comments_changes" -> 3
      [] preference = "inforg_comments" -> 4
      [] preference = "field_trips_new" -> 5
      [] preference = "field_trips_change" -> 6
      [] preference = "coords_change" -> 7
      [] preference = "bot_news" -> 20
      [] preference = "all" -> 30
      [] OTHER -> 99

\* DELETE FROM user_preferences WHERE user_id=%s AND preference or pref_id
\* is one of those of names
delete_preferences(table, names) ==
    [p \in DOMAIN table |-> IF p \in names THEN 0 ELSE table[p]]

\* INSERT INTO user_preferences (user_id, preference, pref_id)
insert_preference(table, preference) ==
    [table EXCEPT ![preference] = @ + 1]

\* SELECT id ... WHERE preference = 'all' or pref_id = 30 LIMIT 1 finds a
\* row: always FALSE
already_all_never(table) == FALSE
\* SELECT id ... WHERE preference = 'all' or pref_id = 30 LIMIT 1 finds a row
already_all(table) == table["all"] > 0

\* the table after the statements of a call, of which statement fail raises
\* (0: none): states[k] is the table before statement k, the last element
\* the table after all of them; every statement is committed on its own
Committed(states, fail) ==
    IF fail \in 1..(Len(states) - 1) THEN states[fail]
    ELSE states[Len(states)]

\* the branch of bot_news, field_trips_new, field_trips_change and
\* coords_change: DELETE, SELECT, INSERT only if there is no 'all'
save_unless_all(table, preference, fail) ==
    LET deleted == delete_preferences(table, {"start", "finish", preference})
    IN  IF already_all(deleted)
        THEN Committed(<<table, deleted, deleted>>, fail)
        ELSE Committed(<<table, deleted, deleted,
                         insert_preference(deleted, preference)>>, fail)

\* the table after save_preference(cur, user_id, preference)
save_preference(table, preference, fail) ==
    CASE preference = "all" ->
            LET deleted == delete_preferences(table, DOMAIN table)
            IN  Committed(<<table, deleted,
                            insert_preference(deleted, "all")>>, fail)
      [] preference = "-all" ->
            LET deleted == delete_preferences(table, DOMAIN table)
            IN  Committed(<<table, deleted,
                            insert_preference(deleted, "bot_news")>>, fail)
      [] preference \in {"new_searches", "status_changes", "title_changes"} ->
            LET user_had_all == table["all"] > 0
                deleted == delete_preferences(
                               table, {"start", "finish", "all", preference})
                inserted == insert_preference(deleted, preference)
            IN  IF user_had_all
                THEN Committed(<<table, table, deleted, inserted,
                                 insert_preference(inserted, "bot_news")>>,
                               fail)
                ELSE Committed(<<table, table, deleted, inserted>>, fail)
      [] preference \in {"-new_searches", "-status_changes"} ->
            LET deleted == delete_preferences(
                    table,
                    { p \in DOMAIN table :
                        pref_id_of(p) = (IF preference = "-new_searches"
                                         THEN 0 ELSE 1) })
            IN  Committed(<<table, deleted, deleted>>, fail)
      [] preference = "comments_changes" ->
            LET deleted == delete_preferences(
                    table, {"start", "all", "finish", "inforg_comments"})
            IN  Committed(<<table, deleted,
                            insert_preference(deleted, "comments_changes")>>,
                          fail)
      [] preference = "-comments_changes" ->
            \* the INSERT ... ON DUPLICATE is not a statement of PostgreSQL:
            \* it raises whenever it is reached
            LET deleted == delete_preferences(table, {"comments_changes"})
            IN  Committed(<<table, deleted>>, fail)
      [] preference = "inforg_comments" ->
            LET deleted == delete_preferences(
                    table, {"start", "finish", "inforg_comments"})
                info_on_user == \/ deleted["all"] > 0
                                \/ deleted["comments_changes"] > 0
            IN  IF info_on_user
                THEN Committed(<<table, deleted, deleted>>, fail)
                ELSE Committed(<<table, deleted, deleted,
                                 insert_preference(deleted, preference)>>,
                               fail)
      [] preference \in {"bot_news", "field_trips_new", "field_trips_change",
                         "coords_change"} ->
            save_unless_all(table, preference, fail)
      [] preference = "-inforg_comments" ->
            Committed(<<table, delete_preferences(table, {"inforg_comments"})>>,
                      fail)
      [] preference = "-bot_news" ->
            Committed(<<table, delete_preferences(table, {"bot_news"})>>, fail)
      [] preference = "-field_trips_new" ->
            Committed(<<table, delete_preferences(table, {"field_trips_new"})>>,
                      fail)
      [] preference = "-field_trips_change" ->
            Committed(<<table,
                        delete_preferences(table, {"field_trips_change"})>>,
                      fail)
      [] preference = "-coords_change" ->
            Committed(<<table, delete_preferences(table, {"coords_change"})>>,
                      fail)

\* prefs[1] of compose_user_preferences_message: the column preference of
\* the rows of the user, ORDER BY preference
RECURSIVE prefs_list(_, _)
prefs_list(table, n) ==
    IF n = 0 THEN <<>>
    ELSE prefs_list(table, n - 1)
            \o [i \in 1..table[PreferenceOrder[n]] |-> PreferenceOrder[n]]

\* the loop over the lines ended with an IndexError: no keyboard is built
IndexError == << "IndexError" >>

\* keyboard[index] = [button] of a Python list (index from 0); an index out
\* of range raises IndexError
set_button(keyboard, index, button) ==
    IF keyboard = IndexError \/ index >= Len(keyboard) THEN IndexError
    ELSE [keyboard EXCEPT ![index + 1] = button]

\* keyboard_notifications_flexible after the loop over the first n lines
RECURSIVE keyboard_after(_, _)
keyboard_after(lines, n) ==
    IF n = 0
    THEN << "b_act_all", "b_act_new_search", "b_act_stat_change",
            "b_act_all_comments", "b_act_inforg_com", "b_act_bot_news",
            "b_back_to_start" >>
    ELSE LET keyboard == keyboard_after(lines, n - 1)
             line == lines[n]
         IN  CASE keyboard = IndexError -> keyboard
               [] line = "all" -> << "b_deact_all", "b_back_to_start" >>
               [] line = "new_searches" ->
                    set_button(keyboard, 1, "b_deact_new_search")
               [] line = "status_changes" ->
                    set_button(keyboard, 2, "b_deact_stat_change")
               [] line = "comments_changes" ->
                    set_button(keyboard, 3, "b_deact_all_comments")
               [] line = "inforg_comments" ->
                    set_button(keyboard, 4, "b_deact_inforg_com")
               [] line = "bot_news" ->
                    set_button(keyboard, 5, "b_deact_bot_news")
               [] OTHER -> keyboard

\* the keyboard main builds from the preferences of the user
keyboard_notifications_flexible(table) ==
    LET lines == prefs_list(table, Len(PreferenceOrder))
    IN  keyboard_after(lines, Len(lines))

-----------------------------------------------------------------------------
(* Preferences specification: the calls of save_preference for one user *)

\* a new user has no row in user_preferences
InitPrefs ==
    /\ IdleProgram
    /\ sel = [user_preferences |-> [p \in PreferenceNames |-> 0],
              preference |-> "none", fail |-> 0, had_all |-> FALSE,
              had |-> 0]

\* main calls save_preference for a button of the notification settings
SavePreference ==
    LET \* the preferences main hands to save_preference
        RequestedPreferences ==
            { "all", "-all", "new_searches", "-new_searches", "bot_news", "-bot_news",
              "status_changes", "-status_changes", "title_changes",
              "comments_changes", "-comments_changes", "inforg_comments",
              "-inforg_comments", "field_trips_new", "-field_trips_new",
              "field_trips_change", "-field_trips_change", "coords_change",
              "-coords_change" }
    IN
        /\ \E preference \in RequestedPreferences :
           \E fail \in 0..4 :
              LET table == save_preference(sel.user_preferences, preference, fail)
              IN  /\ RowCount(table) <= MaxRows
                  /\ sel' = [user_preferences |-> table,
                             preference |-> preference, fail |-> fail,
                             had_all |-> sel.user_preferences["all"] > 0,
                             had |-> IF preference \in PreferenceNames
                                     THEN sel.user_preferences[preference]
                                     ELSE 0]
        /\ UNCHANGED program_vars

SpecPrefs == InitPrefs /\ [][SavePreference]_vars

-----------------------------------------------------------------------------
(* Claims about the preferences of a user (specification SpecPrefs) *)

\* C29: a user who holds the preference 'all' holds no other preference
\* row, and the notification keyboard of such a user is the two-button one.
C29_AllExcludesOthers ==
    sel.user_preferences["all"] > 0
    => /\ \A p \in PreferenceNames \ {"all"} : sel.user_preferences[p] = 0
       /\ keyboard_notifications_flexible(sel.user_preferences)
              = << "b_deact_all", "b_back_to_start" >>

\* 'all' was held, a preference that is stored only without 'all' was
\* requested and every statement succeeded
C29_Witness ==
    /\ sel.had_all
    /\ sel.preference = "bot_news"
    /\ sel.fail = 0
    /\ sel.user_preferences["all"] > 0

\* C30: user_preferences holds at most one row per preference name of the
\* user.
C30_OneRowPerPreference ==
    \A p \in PreferenceNames : sel.user_preferences[p] <= 1

-----------------------------------------------------------------------------
(* The tables the queries read *)

\* table searches: topics 1 and 2 are active searches of folder 1, topic 3 is
\* a search found alive, topic 4 is an active search without a folder, the
\* further topics are active and lie in folder 2
SearchRow(i) ==
    [search_forum_num  |-> i,
     status_short      |-> IF i = 3 THEN NZh ELSE Ischem,
     search_start_time |-> i,
     forum_folder_id   |-> IF i = 4 THEN NULL ELSE IF i <= 3 THEN 1 ELSE 2]

\* LEFT JOIN folders f ON forum_folder_id = f.folder_id
\* WHERE f.folder_type IS NULL OR f.folder_type = 'searches'
folder_passes(forum_folder_id) ==
    LET \* table folders: folder 1 holds searches, folder 2 does not
        folders ==
            <<[folder_id |-> 1, folder_type |-> "searches"],
              [folder_id |-> 2, folder_type |-> "info"]>>
    IN
        \A j \in DOMAIN folders :
            folders[j].folder_id = forum_folder_id
                => folders[j].folder_type = "searches"

\* SELECT count(*), forum_folder_id FROM searches GROUP BY forum_folder_id,
\* LEFT JOINed ON forum_folder_id: a NULL folder joins no group
folder_count(forum_folder_id) ==
    IF forum_folder_id = NULL THEN NULL
    ELSE Cardinality({i \in DOMAIN searches :
                         searches[i].forum_folder_id = forum_folder_id})

\* the lines when only the status 'deleted' is left out
raw_lines_of_not_deleted(s) ==
    LET h == SelectSeq(search_health_check, LAMBDA r :
                 /\ r.search_forum_num = s.search_forum_num
                 /\ r.status # NULLS
                 /\ r.status # "deleted")
        p == SelectSeq(search_first_posts, LAMBDA r :
                 r.search_id = s.search_forum_num /\ r.actual)
        m == IF Len(p) = 0 THEN 1 ELSE Len(p)
        line(k) ==
            [search_forum_num  |-> s.search_forum_num,
             search_start_time |-> s.search_start_time,
             timestamp     |-> IF Len(p) = 0 THEN NULL
                               ELSE p[((k - 1) % m) + 1].timestamp,
             num_of_checks |-> IF Len(p) = 0 THEN NULL
                               ELSE p[((k - 1) % m) + 1].num_of_checks,
             count         |-> folder_count(s.forum_folder_id)]
    IN  IF s.status_short = Ischem /\ folder_passes(s.forum_folder_id)
        THEN [k \in 1..(Len(h) * m) |-> line(k)]
        ELSE <<>>

\* the lines of raw_sql_extract made from one row of searches: one per
\* search_health_check row whose status is neither NULL, 'deleted' nor
\* 'hidden', times one per actual snapshot (or one with NULLs when none)
raw_lines_of(s) ==
    LET h == SelectSeq(search_health_check, LAMBDA r :
                 /\ r.search_forum_num = s.search_forum_num
                 /\ r.status # NULLS
                 /\ r.status # "deleted" /\ r.status # "hidden")
        p == SelectSeq(search_first_posts, LAMBDA r :
                 r.search_id = s.search_forum_num /\ r.actual)
        m == IF Len(p) = 0 THEN 1 ELSE Len(p)
        line(k) ==
            [search_forum_num  |-> s.search_forum_num,
             search_start_time |-> s.search_start_time,
             timestamp     |-> IF Len(p) = 0 THEN NULL
                               ELSE p[((k - 1) % m) + 1].timestamp,
             num_of_checks |-> IF Len(p) = 0 THEN NULL
                               ELSE p[((k - 1) % m) + 1].num_of_checks,
             count         |-> folder_count(s.forum_folder_id)]
    IN  IF s.status_short = Ischem /\ folder_passes(s.forum_folder_id)
        THEN [k \in 1..(Len(h) * m) |-> line(k)]
        ELSE <<>>

RECURSIVE raw_sql_extract_from(_)
raw_sql_extract_from(i) ==
    IF i > Len(searches) THEN <<>>
    ELSE raw_lines_of(searches[i]) \o raw_sql_extract_from(i + 1)

\* the query of get_list_of_searches_for_first_post_and_status_update
raw_sql_extract_query == raw_sql_extract_from(1)

\* the rows of full_list_of_active_searches made from one row of searches:
\* one per search_health_check row whose status is neither NULL nor 'deleted'
active_lines_of(s) ==
    LET h == SelectSeq(search_health_check, LAMBDA r :
                 /\ r.search_forum_num = s.search_forum_num
                 /\ r.status # NULLS
                 /\ r.status # "deleted")
    IN  IF s.status_short = Ischem /\ folder_passes(s.forum_folder_id)
        THEN [k \in 1..Len(h) |->
                 [search_forum_num |-> s.search_forum_num,
                  status |-> h[k].status, timestamp |-> h[k].timestamp]]
        ELSE <<>>

RECURSIVE active_searches_from(_)
active_searches_from(i) ==
    IF i > Len(searches) THEN <<>>
    ELSE active_lines_of(searches[i]) \o active_searches_from(i + 1)

\* the query of update_visibility_for_list_of_active_searches; order is the
\* order the rows of equal timestamp come in (ORDER BY s3.timestamp)
full_list_of_active_searches(order) ==
    LET rows == Shuffled(active_searches_from(1), order)
    IN  SortBy(rows, [r \in Range(rows) |-> r.timestamp])

\* main: number_of_checked_searches
number_of_checked_searches == 100

\* the second loop: rows with a status other than 'deleted', up to
\* number_of_searches rows in the list
RECURSIVE cleared_not_new(_, _, _)
cleared_not_new(full, cleared, number_of_searches) ==
    IF full = <<>> THEN cleared
    ELSE IF Head(full).status # NULLS /\ Head(full).status # "deleted"
         THEN IF Len(cleared) + 1 >= number_of_searches
              THEN Append(cleared, Head(full))
              ELSE cleared_not_new(Tail(full), Append(cleared, Head(full)),
                                   number_of_searches)
         ELSE cleared_not_new(Tail(full), cleared, number_of_searches)

\* cleared_list_of_active_searches: the rows without status first
cleared_list_of_active_searches(full, number_of_searches) ==
    cleared_not_new(full,
                    SelectSeq(full, LAMBDA r : r.status = NULLS),
                    number_of_searches)

RECURSIVE ForumNums(_)
ForumNums(rows) ==
    IF rows = <<>> THEN <<>>
    ELSE <<Head(rows).search_forum_num>> \o ForumNums(Tail(rows))

-----------------------------------------------------------------------------
(* The program: main and update_first_posts_and_statuses, step by step *)

\* a snapshot written before num_of_checks existed
LegacySnapshot(i) ==
    [search_id |-> i, timestamp |-> 0, actual |-> TRUE,
     content_hash |-> md5(1), content |-> 1, num_of_checks |-> NULL]

\* What earlier runs can have left of a topic in search_first_posts: nothing,
\* its first snapshot, that snapshot retired by an UPDATE whose INSERT failed,
\* or that snapshot retired and followed by the actual one.
Histories(i) ==
    LET \* the snapshot an earlier check inserted when it saw the first post changed
        ChangedSnapshot ==
            [search_id |-> i, timestamp |-> 0, actual |-> TRUE,
             content_hash |-> md5(2), content |-> 2, num_of_checks |-> 1]
    IN
        { <<>>,
          <<LegacySnapshot(i)>>,
          <<[LegacySnapshot(i) EXCEPT !.actual = FALSE]>>,
          <<[LegacySnapshot(i) EXCEPT !.actual = FALSE], ChangedSnapshot>> }

\* the topics of table searches that are active searches
ActiveTopics ==
    {i \in 1..NumSearches : SearchRow(i).status_short = Ischem}

RECURSIVE SnapshotRows(_, _)
SnapshotRows(i, history) ==
    IF i > NumSearches THEN <<>>
    ELSE (IF i \in ActiveTopics THEN history[i] ELSE <<LegacySnapshot(i)>>)
             \o SnapshotRows(i + 1, history)

RECURSIVE HealthRows(_, _)
HealthRows(i, status) ==
    IF i > NumSearches THEN <<>>
    ELSE (IF i \notin ActiveTopics
          THEN <<[search_forum_num |-> i, timestamp |-> 0, status |-> "regular"]>>
          ELSE IF status[i] # NULLS
          THEN <<[search_forum_num |-> i, timestamp |-> 0, status |-> status[i]]>>
          ELSE <<>>) \o HealthRows(i + 1, status)

\* The tables as earlier runs can have left them.  An active search has at
\* most one visibility record and one of the histories; a search that is not
\* active any more has the record and the snapshot of its active time.
Init ==
    /\ searches = [i \in 1..NumSearches |-> SearchRow(i)]
    /\ \E status \in [ActiveTopics -> {NULLS, "regular", "hidden", "deleted"}] :
          search_health_check = HealthRows(1, status)
    /\ \E history \in [ActiveTopics -> UNION {Histories(i) : i \in ActiveTopics}] :
          /\ \A i \in ActiveTopics : history[i] \in Histories(i)
          /\ search_first_posts = SnapshotRows(1, history)
    /\ bad_gateway_counter = 0
    /\ published = <<>>
    /\ pc = "idle"
    /\ in_main = FALSE
    /\ batch = <<>>
    /\ updated = <<>>
    /\ now = 1
    /\ last = NoLast
    /\ sel = NoSel

\* a new call is started while the clock and the check counters are in bounds
NewCallAllowed ==
    /\ now <= MaxClock
    /\ \A i \in DOMAIN search_first_posts :
          search_first_posts[i].num_of_checks < MaxChecks

SetWorld(w) ==
    /\ search_health_check' = w.health
    /\ search_first_posts' = w.posts
    /\ bad_gateway_counter' = w.counter
    /\ published' = w.published
    /\ now' = w.now

\* main without the reset of the counter
main_begin_no_reset ==
    /\ pc = "idle"
    /\ NewCallAllowed
    /\ \E order \in Permutations1(Len(active_searches_from(1))) :
       \E query_fails \in BOOLEAN :
          batch' = IF query_fails THEN <<>>
                   ELSE ForumNums(cleared_list_of_active_searches(
                            full_list_of_active_searches(order),
                            number_of_checked_searches))
    /\ bad_gateway_counter' = bad_gateway_counter
    /\ published' = <<>>
    /\ updated' = <<>>
    /\ pc' = "visibility"
    /\ in_main' = TRUE
    /\ last' = [op |-> "main_begin", left |-> bad_gateway_counter]
    /\ UNCHANGED <<searches, search_health_check, search_first_posts, now, sel>>

\* main up to the for loop of update_visibility_for_list_of_active_searches:
\* the counter is reset and the list of active searches is read
main_begin ==
    /\ pc = "idle"
    /\ NewCallAllowed
    /\ \E order \in Permutations1(Len(active_searches_from(1))) :
       \E query_fails \in BOOLEAN :
          batch' = IF query_fails THEN <<>>
                   ELSE ForumNums(cleared_list_of_active_searches(
                            full_list_of_active_searches(order),
                            number_of_checked_searches))
    /\ bad_gateway_counter' = 0
    /\ published' = <<>>
    /\ updated' = <<>>
    /\ pc' = "visibility"
    /\ in_main' = TRUE
    /\ last' = [op |-> "main_begin", left |-> bad_gateway_counter]
    /\ UNCHANGED <<searches, search_health_check, search_first_posts, now, sel>>

\* one turn of the for loop of update_visibility_for_list_of_active_searches;
\* outcomes is what the request can give, fails the statements that can raise
visibility_step_in(outcomes, fails) ==
    /\ pc = "visibility"
    /\ batch # <<>>
    /\ \E outcome \in outcomes :
       \E fail \in fails :
          LET w == update_one_topic_visibility(World, Head(batch), outcome, fail)
          IN  /\ SetWorld(w)
              /\ batch' = IF w.raised \/ w.counter > 3 THEN <<>> ELSE Tail(batch)
              /\ last' = [op |-> "visibility", id |-> Head(batch),
                          fetched |-> has_content(outcome),
                          checked |-> check_topic_visibility(outcome),
                          fail |-> fail]
    /\ UNCHANGED <<searches, pc, in_main, updated, sel>>

\* the turn when the forum and the database can do anything
visibility_step == visibility_step_in(FetchOutcomes, 0..2)

\* update_first_posts_and_statuses up to its for loop: the selector is called
first_posts_begin(percent_of_searches, weights) ==
    /\ \E order \in Permutations1(Len(raw_sql_extract_query)) :
       \E shuffle \in Permutations1(Len(raw_sql_extract_query)) :
       \E query_fails \in BOOLEAN :
          batch' = IF query_fails \/ percent_of_searches <= 0 THEN <<>>
                   ELSE Ids(get_list_of_searches_for_first_post_and_status_update(
                                Shuffled(raw_sql_extract_query, order),
                                percent_of_searches, weights, shuffle))
    /\ updated' = <<>>
    /\ pc' = "first_posts"
    /\ UNCHANGED <<searches, search_health_check, search_first_posts,
                   bad_gateway_counter, now, sel>>

\* main after the visibility loop: it calls update_first_posts_and_statuses
main_first_posts ==
    /\ pc = "visibility"
    /\ batch = <<>>
    /\ first_posts_begin(percent_of_first_posts_to_check, main_weights)
    /\ last' = [op |-> "main_first_posts"]
    /\ published' = <<>>
    /\ UNCHANGED in_main

\* update_first_posts_and_statuses called with a percent and weights of the
\* given sets
call_update_first_posts_with(percents, weight_sets) ==
    /\ pc = "idle"
    /\ NewCallAllowed
    /\ bad_gateway_counter < MaxBadGateway
    /\ \E percent \in percents :
       \E weights \in weight_sets :
          first_posts_begin(percent, weights)
    /\ published' = <<>>
    /\ in_main' = FALSE
    /\ last' = [op |-> "call_update_first_posts"]

\* update_first_posts_and_statuses called with any percent and weights
call_update_first_posts == call_update_first_posts_with(Percents, WeightSets)

\* one turn of the for loop of update_first_posts_and_statuses; an exception
\* ends the loop.  outcomes is what the requests can give, fails the
\* statements that can raise.
first_post_step_in(outcomes, fails) ==
    /\ pc = "first_posts"
    /\ batch # <<>>
    /\ LET search_id == Head(batch)
           rows == select_actual(search_first_posts, search_id)
       IN  \E outcome \in outcomes :
           \E row \in IF rows = {} THEN {0} ELSE rows :
           \E fail \in fails :
           \E outcome2 \in IF parse_first_post(outcome).not_found
                           THEN outcomes ELSE {outcome} :
           \E fail2 \in IF parse_first_post(outcome).not_found
                        THEN fails \cap (0..2) ELSE {0} :
              LET res == check_one_first_post(World, updated, search_id,
                                              outcome, row, fail, outcome2, fail2)
              IN  /\ SetWorld(res.world)
                  /\ updated' = res.updated
                  /\ batch' = IF res.world.raised THEN <<>> ELSE Tail(batch)
                  /\ last' = [op |-> "first_post", id |-> search_id,
                              fetched |-> has_content(outcome),
                              parsed |-> parse_first_post(outcome),
                              raised |-> res.world.raised]
    /\ UNCHANGED <<searches, pc, in_main, sel>>

\* the turn when the forum and the database can do anything
first_post_step == first_post_step_in(FetchOutcomes, 0..3)

\* after the for loop: the changed first posts are published; main then
\* reports the bad gateways.  The clock ticks here: the rows one call writes
\* carry the same time, and the queries take rows of equal time in any order.
first_posts_end ==
    /\ pc = "first_posts"
    /\ batch = <<>>
    /\ LET w1 == IF updated # <<>>
                 THEN publish_to_pubsub(World, "topic_for_first_post_processing",
                                        updated)
                 ELSE World
           w2 == IF in_main /\ bad_gateway_counter > 3
                 THEN publish_to_pubsub(w1, "topic_notify_admin",
                                        bad_gateway_counter)
                 ELSE w1
       IN  published' = w2.published
    /\ pc' = "idle"
    /\ now' = now + 1
    /\ last' = [op |-> "first_posts_end"]
    /\ UNCHANGED <<searches, search_health_check, search_first_posts,
                   bad_gateway_counter, in_main, batch, updated, sel>>

Next ==
    \/ main_begin
    \/ visibility_step
    \/ main_first_posts
    \/ call_update_first_posts
    \/ first_post_step
    \/ first_posts_end

Spec == Init /\ [][Next]_vars

-----------------------------------------------------------------------------
(* Budget specification: one call of update_first_posts_and_statuses over   *)
(* enough searches to exceed the budget of bad gateways, with a forum that   *)
(* answers or times out and a database that does not fail                    *)

\* one search more than the requests that must fail for the counter to
\* exceed 3
BudgetSearches == 3 + 2

\* active searches of folder 1, each with a visibility record, none with a
\* snapshot
InitBudget ==
    /\ searches = [i \in 1..BudgetSearches |->
                      [SearchRow(1) EXCEPT !.search_forum_num = i,
                                           !.search_start_time = i]]
    /\ search_health_check =
          [i \in 1..BudgetSearches |->
              [search_forum_num |-> i, timestamp |-> 0, status |-> "regular"]]
    /\ search_first_posts = <<>>
    /\ bad_gateway_counter = 0
    /\ published = <<>>
    /\ pc = "idle"
    /\ in_main = FALSE
    /\ batch = <<>>
    /\ updated = <<>>
    /\ now = 1
    /\ last = NoLast
    /\ sel = NoSel

BudgetOutcomes ==
    {[kind |-> "content", page |-> TopicPage(1)],
     [kind |-> "content", page |-> LongBadGatewayPage],
     [kind |-> "ReadTimeout", page |-> NotFoundPage]}

NextBudget ==
    \/ call_update_first_posts_with({100}, {main_weights, Weights(0, 0, 0, 70, 30)})
    \/ first_post_step_in(BudgetOutcomes, {0})
    \/ first_posts_end

SpecBudget == InitBudget /\ [][NextBudget]_vars

-----------------------------------------------------------------------------
(* Main specification: one invocation of main in a process that has served   *)
(* earlier invocations, over the searches of the budget specification        *)

\* the requests that must fail in one invocation for main to report them
MainSearches == 3 + 1

\* active searches with a visibility record each; the module global
\* bad_gateway_counter holds what the earlier invocations of the process
\* left in it
InitMain ==
    /\ searches = [i \in 1..MainSearches |->
                      [SearchRow(1) EXCEPT !.search_forum_num = i,
                                           !.search_start_time = i]]
    /\ search_health_check =
          [i \in 1..MainSearches |->
              [search_forum_num |-> i, timestamp |-> 0, status |-> "regular"]]
    /\ search_first_posts = <<>>
    /\ bad_gateway_counter \in 0..(3 + MaxBadGateway)
    /\ published = <<>>
    /\ pc = "idle"
    /\ in_main = FALSE
    /\ batch = <<>>
    /\ updated = <<>>
    /\ now = 1
    /\ last = NoLast
    /\ sel = NoSel

NextMain ==
    \/ main_begin
    \/ visibility_step_in(BudgetOutcomes, {0})
    \/ main_first_posts
    \/ first_posts_end

SpecMain == InitMain /\ [][NextMain]_vars

-----------------------------------------------------------------------------
(* Claims about the first-post check (specification Spec) *)

\* the rows of a topic in search_first_posts, and the actual ones
SnapshotsOf(table, id) == {i \in DOMAIN table : table[i].search_id = id}
ActualOf(table, id) ==
    {i \in DOMAIN table : table[i].search_id = id /\ table[i].actual}

\* the step taken is one turn of the loop of update_first_posts_and_statuses
FirstPostStepTaken ==
    pc = "first_posts" /\ batch # <<>> /\ last'.op = "first_post"

\* the turn fetched a page and computed a fingerprint from it
FingerprintComputed(l) ==
    l.fetched /\ ~l.parsed.bad_gateway /\ ~l.parsed.not_found

\* C1: after any sequence of first-post checks every resource has at most one
\* snapshot row in search_first_posts whose actual flag is TRUE.
C1_AtMostOneActual ==
    \A id \in 1..NumSearches :
        Cardinality(ActualOf(search_first_posts, id)) <= 1

\* C1 witness: a resource was seen changed, so it has a retired snapshot and
\* an actual one.
C1_Witness ==
    \E id \in 1..NumSearches :
        /\ Cardinality(SnapshotsOf(search_first_posts, id)) >= 2
        /\ Cardinality(ActualOf(search_first_posts, id)) = 1
        /\ \E i \in SnapshotsOf(search_first_posts, id) :
              ~search_first_posts[i].actual

\* C2: when the fingerprint computed in a check differs from the one of the
\* actual snapshot, then after the check (its statements having succeeded)
\* the snapshot that was actual is not actual, and a new snapshot with the new
\* fingerprint and content is the actual one, with check counter 1.
C2_ChangeRetiresAndInserts ==
    [][ LET id  == last'.id
            cur == ActualOf(search_first_posts, id)
            n   == Len(search_first_posts')
        IN  ( /\ FirstPostStepTaken
              /\ FingerprintComputed(last')
              /\ ~last'.raised
              /\ cur # {}
              /\ \A i \in cur :
                    search_first_posts[i].content_hash # last'.parsed.hash_num )
            => /\ n = Len(search_first_posts) + 1
               /\ \A i \in cur : ~search_first_posts'[i].actual
               /\ ActualOf(search_first_posts', id) = {n}
               /\ search_first_posts'[n].content_hash = last'.parsed.hash_num
               /\ search_first_posts'[n].content = last'.parsed.content
               /\ search_first_posts'[n].num_of_checks = 1
      ]_vars

\* C2 witness: the last check computed a fingerprint, found another one in
\* the actual snapshot, retired that snapshot and inserted the new one.
C2_Witness ==
    /\ last.op = "first_post"
    /\ FingerprintComputed(last)
    /\ ~last.raised
    /\ updated # <<>>
    /\ updated[Len(updated)] = last.id
    /\ LET n == Len(search_first_posts)
       IN  /\ n >= 2
           /\ search_first_posts[n].search_id = last.id
           /\ search_first_posts[n].actual
           /\ search_first_posts[n].content_hash = last.parsed.hash_num
           /\ \E i \in 1..(n - 1) :
                 /\ search_first_posts[i].search_id = last.id
                 /\ ~search_first_posts[i].actual
                 /\ search_first_posts[i].content_hash # NULL
                 /\ search_first_posts[i].content_hash # last.parsed.hash_num

\* C3: when the fingerprint computed in a check equals the one of the actual
\* snapshot, the check counter of that snapshot grows by exactly one (a
\* missing counter counting as 1) and no other snapshot is created, retired
\* or modified.
C3_UnchangedIncrementsCounter ==
    [][ LET id  == last'.id
            cur == ActualOf(search_first_posts, id)
        IN  ( /\ FirstPostStepTaken
              /\ FingerprintComputed(last')
              /\ ~last'.raised
              /\ cur # {}
              /\ \A i \in cur :
                    search_first_posts[i].content_hash = last'.parsed.hash_num )
            => /\ search_first_posts' =
                     [i \in DOMAIN search_first_posts |->
                         IF i \in cur
                         THEN [search_first_posts[i] EXCEPT !.num_of_checks =
                                  (IF @ = NULL THEN 1 ELSE @) + 1]
                         ELSE search_first_posts[i]]
               /\ updated' = updated
      ]_vars

\* C3 witness: the last check found the fingerprint of the actual snapshot
\* unchanged; the snapshot was written without counter and its counter is
\* now 2.
C3_Witness ==
    /\ last.op = "first_post"
    /\ FingerprintComputed(last)
    /\ ~last.raised
    /\ \E i \in ActualOf(search_first_posts, last.id) :
          /\ search_first_posts[i] =
                [LegacySnapshot(last.id) EXCEPT !.num_of_checks = 2]
          /\ search_first_posts[i].content_hash = last.parsed.hash_num

\* C4: when a resource without actual snapshot is checked successfully,
\* exactly one snapshot is inserted for it, marked actual, with check counter
\* 1, and the resource is not reported as changed.
C4_FirstCheckInsertsOne ==
    [][ LET id == last'.id
        IN  ( /\ FirstPostStepTaken
              /\ FingerprintComputed(last')
              /\ ~last'.raised
              /\ ActualOf(search_first_posts, id) = {} )
            => /\ search_first_posts' =
                     Append(search_first_posts,
                            [search_id |-> id, timestamp |-> now,
                             actual |-> TRUE,
                             content_hash |-> last'.parsed.hash_num,
                             content |-> last'.parsed.content,
                             num_of_checks |-> 1])
               /\ updated' = updated
      ]_vars

\* C4 witness: the last check fetched a resource that had no snapshot at all
\* and inserted its only snapshot, without reporting the resource.
C4_Witness ==
    /\ last.op = "first_post"
    /\ FingerprintComputed(last)
    /\ ~last.raised
    /\ SnapshotsOf(search_first_posts, last.id) = {Len(search_first_posts)}
    /\ search_first_posts[Len(search_first_posts)].actual
    /\ search_first_posts[Len(search_first_posts)].num_of_checks = 1
    /\ \A i \in DOMAIN updated : updated[i] # last.id

\* C5: a snapshot is created only on the first successful check of a resource
\* or when the fingerprint computed from fetched content differs from the
\* actual one; a check whose fetch fails creates no snapshot, retires none and
\* does not report the resource as changed.
C5_FailedFetchChangesNothing ==
    [][ LET id  == last'.id
            cur == ActualOf(search_first_posts, id)
        IN  FirstPostStepTaken =>
               /\ ~last'.fetched =>
                     /\ search_first_posts' = search_first_posts
                     /\ updated' = updated
               /\ Len(search_first_posts') > Len(search_first_posts) =>
                     /\ FingerprintComputed(last')
                     /\ \/ cur = {}
                        \/ \E i \in cur : search_first_posts[i].content_hash
                                             # last'.parsed.hash_num
      ]_vars

\* C25: a resource that had one actual snapshot before a check that computed
\* a fingerprint has exactly one actual snapshot after it, also when a
\* statement of the check raised.
C25_OneActualAfterCheck ==
    [][ LET id == last'.id
        IN  ( /\ FirstPostStepTaken
              /\ FingerprintComputed(last')
              /\ Cardinality(ActualOf(search_first_posts, id)) = 1 )
            => Cardinality(ActualOf(search_first_posts', id)) = 1
      ]_vars

\* C27: the list of changed resources gets the resource of a turn (in which
\* no statement raised) exactly when the turn computed a fingerprint that
\* differs from the one of the actual snapshot, and at the end of the batch one message with that list is
\* published to first-post processing exactly when the list is not empty.
C27_ChangedOnesPublished ==
    [][ LET \* the messages of a step to first-post processing
            FirstPostMessages(p) ==
                { i \in DOMAIN p : p[i].topic = "topic_for_first_post_processing" }
        IN
            /\ (FirstPostStepTaken /\ ~last'.raised)
                 => LET id  == last'.id
                        cur == ActualOf(search_first_posts, id)
                        differed ==
                            /\ FingerprintComputed(last')
                            /\ cur # {}
                            /\ \A i \in cur : search_first_posts[i].content_hash
                                                   # last'.parsed.hash_num
                    IN  updated' = IF differed THEN Append(updated, id)
                                   ELSE updated
            /\ (pc = "first_posts" /\ last'.op = "first_posts_end")
                 => /\ FirstPostMessages(published') # {} <=> updated # <<>>
                    /\ Cardinality(FirstPostMessages(published')) <= 1
                    /\ \A i \in FirstPostMessages(published') :
                          published'[i].message = updated
          ]_vars

-----------------------------------------------------------------------------
(* Claims about the visibility batch (specification Spec) *)

\* the turn taken is one turn of the loop of
\* update_visibility_for_list_of_active_searches
VisibilityStepTaken ==
    pc = "visibility" /\ batch # <<>> /\ last'.op = "visibility"

\* C13: within one invocation, once the counter of bad gateways exceeds 3 no
\* further resource is fetched, neither in the visibility batch nor in the
\* first-post batch.
C13_BudgetEndsBatch ==
    [][ bad_gateway_counter > 3 => ~(VisibilityStepTaken \/ FirstPostStepTaken)
      ]_vars

\* C12: when the content fetched for a visibility check contains a
\* gateway-error marker, the check yields unreachable (bad_gateway), the caller
\* writes no visibility record for the resource and the transient-failure
\* counter is incremented.
C12_GatewayErrorCounted ==
    [][ LET \* the fetched content has the text 'Bad Gateway' (behind its first character)
            GatewayMarkerSeen(l) == l.fetched /\ l.checked.notified
        IN
            (VisibilityStepTaken /\ GatewayMarkerSeen(last'))
                => /\ last'.checked.bad_gateway
                   /\ ~last'.checked.raised
                   /\ search_health_check' = search_health_check
                   /\ bad_gateway_counter' = bad_gateway_counter + 1
          ]_vars

\* the rows of search_health_check of one topic
HealthOf(table, search_id) ==
    { k \in 1..Len(table) : table[k].search_forum_num = search_id }

\* the turn ran update_one_topic_visibility to its end: the check gave a
\* visibility and neither statement raised
VisibilityUpdated(l) ==
    l.op = "visibility" /\ ~l.checked.raised /\ ~l.checked.bad_gateway /\ l.fail = 0

\* C18: every topic has at most one row in search_health_check, and after a
\* visibility update that ran to its end the row of the topic carries the
\* status the check has just given.
C18_OneHealthRow ==
    /\ [](\A i \in 1..NumSearches :
             Cardinality(HealthOf(search_health_check, i)) <= 1)
    /\ [][ (VisibilityStepTaken /\ VisibilityUpdated(last'))
             => \E k \in 1..Len(search_health_check') :
                   /\ HealthOf(search_health_check', last'.id) = {k}
                   /\ search_health_check'[k].status = last'.checked.visibility
                   /\ search_health_check'[k].timestamp = now
          ]_vars

\* a record that said 'regular' or 'hidden' was replaced by one that says
\* 'deleted'
C18_Witness ==
    /\ VisibilityUpdated(last)
    /\ last.checked.visibility = "deleted"
    /\ \E k \in 1..Len(search_health_check) :
          /\ HealthOf(search_health_check, last.id) = {k}
          /\ search_health_check[k].status = "deleted"
          /\ search_health_check[k].timestamp = now

\* C19: when a statement fails for one resource of a batch, the loop goes on
\* with the resources that follow it, in the visibility batch and in the
\* first-post batch.
C19_FailureSkipsOneResource ==
    [][ LET \* a statement on search_first_posts raised in the turn: the page was parsed
            \* without a trigger, so nothing but a statement can have raised
            SnapshotStatementFailed(l) ==
                l.op = "first_post" /\ l.raised /\ ~l.parsed.bad_gateway
                    /\ ~l.parsed.not_found
            \* a statement of update_one_topic_visibility raised in the turn
            HealthStatementFailed(l) ==
                l.op = "visibility" /\ ~l.checked.raised /\ ~l.checked.bad_gateway
                    /\ l.fail \in 1..2
        IN
            /\ (VisibilityStepTaken /\ HealthStatementFailed(last'))
                 => batch' = Tail(batch)
            /\ (FirstPostStepTaken /\ SnapshotStatementFailed(last'))
                 => batch' = Tail(batch)
          ]_vars

\* the statuses search_health_check holds for one topic
HealthStatuses(search_id) ==
    { search_health_check[k].status :
          k \in HealthOf(search_health_check, search_id) }

\* C20 as stated: a topic whose visibility record says 'deleted' or 'hidden'
\* is fetched neither by the visibility batch nor by the first-post batch.
C20_GoneNeverFetched ==
    [][ (VisibilityStepTaken \/ FirstPostStepTaken)
            => HealthStatuses(Head(batch)) \cap {"deleted", "hidden"} = {}
      ]_vars

\* C20: a topic whose visibility record says 'deleted' is fetched by neither
\* batch, and a topic whose record says 'hidden' is not fetched by the
\* first-post batch.
C20_DeletedNeverFetched ==
    [][ /\ VisibilityStepTaken => "deleted" \notin HealthStatuses(Head(batch))
        /\ FirstPostStepTaken
             => HealthStatuses(Head(batch)) \cap {"deleted", "hidden"} = {}
      ]_vars

\* the first-post batch has fetched a topic; the other topic is recorded as
\* deleted since an earlier run
C20_Witness ==
    /\ last.op = "first_post"
    /\ \E i \in ActiveTopics \ {last.id} :
       \E k \in HealthOf(search_health_check, i) :
          /\ search_health_check[k].status = "deleted"
          /\ search_health_check[k].timestamp < now

\* C24: when the fetch of a visibility check gives no content, the status the
\* visibility record of the resource holds stays as it is: a record that says
\* 'hidden' or 'deleted' is not replaced by one that says 'regular'.
C24_FailedFetchKeepsRecord ==
    [][ (VisibilityStepTaken /\ ~last'.fetched /\ last'.fail = 0)
            => { search_health_check'[k].status :
                     k \in HealthOf(search_health_check', Head(batch)) }
                  = HealthStatuses(Head(batch))
      ]_vars

\* C26: an active search without a visibility record is in the visibility
\* batch main reads, ahead of the searches that have a record.
C26_NewSearchesFirst ==
    [][ LET \* the position of a topic in a list of topics, 0 when it is not there
            PositionIn(list, id) ==
                IF \E k \in DOMAIN list : list[k] = id
                THEN CHOOSE k \in DOMAIN list : list[k] = id
                ELSE 0
        IN
            (pc = "idle" /\ last'.op = "main_begin" /\ batch' # <<>>)
                => \A i \in ActiveTopics :
                      HealthOf(search_health_check, i) = {}
                      => /\ PositionIn(batch', i) > 0
                         /\ \A j \in ActiveTopics :
                               HealthOf(search_health_check, j) # {}
                               => PositionIn(batch', i) < PositionIn(batch', j)
                                  \/ PositionIn(batch', j) = 0
          ]_vars

-----------------------------------------------------------------------------
(* Claims about main (specification SpecMain) *)

\* C23: main starts with the counter of bad gateways at 0 whatever the
\* earlier invocations left in it, and at its end it publishes the final
\* notification exactly when the counter, which counts from that 0, exceeds 3.
C23_CounterResetByMain ==
    [][ LET \* the step published main's final notification 'Bad Gateway N times'
            FinalNotification(p) ==
                \E i \in DOMAIN p : p[i].topic = "topic_notify_admin"
        IN
            /\ (pc = "idle" /\ last'.op = "main_begin")
                 => bad_gateway_counter' = 0
            /\ (in_main /\ pc = "first_posts" /\ last'.op = "first_posts_end")
                 => (FinalNotification(published') <=> bad_gateway_counter > 3)
          ]_vars

\* main has started in a process whose earlier invocations left failures in
\* the counter
C23_Witness ==
    /\ last.op = "main_begin"
    /\ last.left > 0
    /\ bad_gateway_counter = 0
    /\ in_main

-----------------------------------------------------------------------------
(* Claims about the candidate selector (specification SpecSel) *)

\* target_count and the quota of a criterion, as the claims state them
TargetCount == Round(Len(sel.raw) * sel.percent, 100)
Quota(weight) == Round(weight * TargetCount, 100)
CriterionWeight(c) ==
    CASE c = 1 -> sel.weights.start_time
      [] c = 2 -> sel.weights.upd_time
      [] c = 3 -> sel.weights.folder_weight
      [] c = 4 -> sel.weights.checks_made
      [] c = 5 -> sel.weights.random

\* the line of raw_sql_extract a picked row was made from
RawOf(row) == CHOOSE l \in Range(sel.raw) : l.search_forum_num = row.id

\* C6: the list the selector returns holds no resource id twice and has at
\* most |population| entries, for every population, fraction and weights.
C6_NoDuplicateIds ==
    LET NoDuplicates(ids) ==
            \A i, j \in DOMAIN ids : ids[i] = ids[j] => i = j
    IN
        sel.done =>
            /\ NoDuplicates(Ids(sel.out))
            /\ Len(sel.out) <= Len(sel.raw)

\* C6 witness: two criteria contributed and the second one had to skip a row
\* the first one had already taken.
C6_Witness ==
    /\ sel.done
    /\ Len(sel.picks[1]) >= 1
    /\ Len(sel.picks[2]) >= 1
    /\ Len(sel.out) = Len(sel.raw)
    /\ Len(sel.raw) = MaxPop

\* C7: each criterion contributes at most round(weight/100 * target_count)
\* rows, none of which an earlier criterion had selected.
C7_QuotaPerCriterion ==
    sel.done =>
        \A c \in 1..5 :
            /\ Len(sel.picks[c]) <= Quota(CriterionWeight(c))
            /\ \A i \in DOMAIN sel.picks[c] :
               \A d \in 1..(c - 1) :
                  sel.picks[c][i].id \notin Range(Ids(sel.picks[d]))

\* C7 witness: two criteria contributed, each exactly its quota, and the
\* quotas left a row of the population unselected.
C7_Witness ==
    /\ sel.done
    /\ Len(sel.out) < Len(sel.raw)
    /\ Cardinality({c \in 1..5 : Len(sel.picks[c]) >= 1}) >= 2
    /\ \A c \in 1..5 : Len(sel.picks[c]) = Quota(CriterionWeight(c))

\* C8: with target_fraction = 0 the selector returns the empty list for every
\* population and weights.
C8_ZeroFractionEmpty ==
    (sel.done /\ sel.percent = 0) => sel.out = <<>>

\* C8 witness: the selector was applied with fraction 0 to a full population.
C8_Witness ==
    /\ sel.done
    /\ sel.percent = 0
    /\ Len(sel.raw) = MaxPop
    /\ sel.weights = main_weights

\* C9: the output is the concatenation of the picks in criterion order, and
\* the picks of criteria a..d are in the criterion's order: newest creation
\* first, oldest last-update first with never-checked rows ahead, highest
\* group popularity first, fewest prior checks first.
C9_ConcatenationInSortOrder ==
    sel.done =>
        /\ sel.out = Concat5(sel.picks)
        /\ LET Ordered(p, Before(_, _)) ==
                   \A i, j \in DOMAIN p : i < j => Before(RawOf(p[i]), RawOf(p[j]))
               NewestFirst(x, y) == x.search_start_time >= y.search_start_time
               OldestUpdateFirst(x, y) ==
                   \/ x.timestamp = NULL
                   \/ (y.timestamp # NULL /\ x.timestamp <= y.timestamp)
               PopularFirst(x, y) == x.count >= y.count
               Checks(x) == IF x.num_of_checks = NULL THEN 1 ELSE x.num_of_checks
               FewestChecksFirst(x, y) == Checks(x) <= Checks(y)
           IN  /\ Ordered(sel.picks[1], NewestFirst)
               /\ Ordered(sel.picks[2], OldestUpdateFirst)
               /\ Ordered(sel.picks[3], PopularFirst)
               /\ Ordered(sel.picks[4], FewestChecksFirst)

\* C9 witness: criterion b picked a never-checked row and then a checked one,
\* and an earlier criterion contributed rows of different creation times.
C9_Witness ==
    /\ sel.done
    /\ \E c \in {1, 2} :
          /\ Len(sel.picks[c]) >= 2
          /\ RawOf(sel.picks[c][1]).timestamp = NULL
          /\ RawOf(sel.picks[c][2]).timestamp # NULL
          /\ RawOf(sel.picks[c][1]).search_start_time
                # RawOf(sel.picks[c][2]).search_start_time

\* C10: for weights that sum to 100 and a fraction in 1..100 the selector
\* returns at most target_count = round(|population| * fraction / 100) rows.
C10_AtMostTargetCount ==
    LET WeightSum(w) ==
            w.start_time + w.upd_time + w.folder_weight + w.checks_made + w.random
    IN
        (sel.done /\ WeightSum(sel.weights) = 100 /\ sel.percent \in 1..100) =>
            Len(sel.out) <= TargetCount

\* C22: when a row of the population has no folder count, the selector picks
\* the resources the five criteria pick from the population with count 1 for
\* that row.
C22_MissingCountIsOne ==
    LET \* the population with 1 in the place of every missing folder count
        WithCountOne(raw) ==
            [i \in DOMAIN raw |->
                IF raw[i].count = NULL THEN [raw[i] EXCEPT !.count = 1] ELSE raw[i]]
    IN
        (sel.done /\ sel.percent > 0
            /\ \E i \in DOMAIN sel.raw : sel.raw[i].count = NULL)
        => \E shuffle \in Permutations1(Len(sel.raw)) :
              LET picks == criteria_picks(WithCountOne(sel.raw), sel.percent,
                                          sel.weights, shuffle)
              IN  /\ \A c \in 1..5 : Ids(sel.picks[c]) = Ids(picks[c])
                  /\ Ids(sel.out) = Ids(Concat5(picks))

====
